---- MODULE Spec2Model ----
(***************************************************************************)
(* A model of the `record` package: the revision diff of                   *)
(* record/storage.py (Storage.revision_generate) and the field proxy of    *)
(* record/data.py (Data.field_set, Data.field_remove, Data.value), and the  *)
(* registry of record/cache.py (Cache.register, Cache.factory).            *)
(*                                                                         *)
(* Python values are tagged records [t, v]:                                *)
(*   none  : None                         int  : an int                    *)
(*   str   : a str                        dict : a mapping, key -> value   *)
(*   list  : a sequence of values         ref  : a reference to an object  *)
(*   raise : an exception leaving a call (v names its class)               *)
(* Python's == on these is structural, and so is TLA+ equality on the      *)
(* tagged records (an int never equals a str, a dict never a list).        *)
(***************************************************************************)
EXTENDS Integers, Sequences, FiniteSets, TLC

VARIABLES
  dpc,      \* revision_generate: "input" before the call, "done" after it
  old,      \* revision_generate: argument `old`
  new,      \* revision_generate: argument `new`
  result,   \* revision_generate: what the call returned or raised
  value,      \* Data.__init__: argument `value`
  _storage,   \* Data._storage: not bound, or the storage
  _value,     \* Data._value: not bound, or field -> a single value or a
              \* reference to a list
  _changed,   \* Data._changed: not bound, a list, or a dict field -> True
  _old_value, \* Data._old_value: not bound, None, or the snapshot
  changes,    \* Data._storage.changes: whether revisions are kept
  heap,       \* the list objects: address -> list, or Free
  ret,        \* the dict last returned by Data.value, held by the caller
  call,       \* the last call: [op, field, arg]
  outcome,    \* how the last call ended: [t, v]
  validated,  \* whether the last call consulted the field's validator
  __implementations, \* Cache.__implementations: name -> class
  ccall,      \* Cache: the last call, [op, cls, name, conf]
  coutcome    \* Cache: how the last call ended, [t, v]

dvars == <<dpc, old, new, result>>
pvars == <<value, _storage, _value, _changed, _old_value, changes, heap, ret, call,
           outcome, validated>>
cvars == <<__implementations, ccall, coutcome>>
vars == <<dpc, old, new, result,
          value, _storage, _value, _changed, _old_value, changes, heap, ret, call,
          outcome, validated,
          __implementations, ccall, coutcome>>

(***************************************************************************)
(* Values                                                                  *)
(***************************************************************************)
PyNone == [t |-> "none", v |-> "None"]
PyInt(i) == [t |-> "int", v |-> i]
PyStr(s) == [t |-> "str", v |-> s]
PyDict(m) == [t |-> "dict", v |-> m]
PyList(s) == [t |-> "list", v |-> s]
Raise(e) == [t |-> "raise", v |-> e]

IsDict(x) == x.t = "dict"
IsList(x) == x.t = "list"
IsRaise(x) == x.t = "raise"

\* Python truthiness of what revision_generate returns: None and the empty
\* dict are false, a non-empty dict is true.
Truthy(x) == IsDict(x) /\ DOMAIN x.v # {}

\* str(i) of a non-negative int.
Digits == <<"0", "1", "2", "3", "4", "5", "6", "7", "8", "9">>
RECURSIVE str(_)
str(i) == IF i < 10 THEN Digits[i + 1] ELSE str(i \div 10) \o Digits[(i % 10) + 1]

(***************************************************************************)
(* Storage.revision_generate                                               *)
(***************************************************************************)
\* { 'old': o, 'new': n }
Terminal(o, n) == PyDict([k \in {"old", "new"} |-> IF k = "old" THEN o ELSE n])

\* cls.generate_changes(...): the class defines revision_generate and no
\* generate_changes, so the attribute lookup raises AttributeError.
generate_changes(o, n) == Raise("AttributeError")

\* iOldLen > iNewLen and iOldLen or iNewLen
MaxKeys(iOldLen, iNewLen) ==
  IF iOldLen > iNewLen
    THEN (IF iOldLen # 0 THEN iOldLen ELSE iNewLen)
    ELSE iNewLen

\* Both are dicts.
DictChanges(o, n) ==
  LET shared  == DOMAIN o.v \cap DOMAIN n.v
      onlyOld == DOMAIN o.v \ DOMAIN n.v
      onlyNew == DOMAIN n.v \ DOMAIN o.v
      dTemp   == [k \in shared |-> generate_changes(o.v[k], n.v[k])]
      kept    == {k \in shared : Truthy(dTemp[k])}
      dRet    == [k \in onlyOld \cup kept \cup onlyNew |->
                    IF k \in onlyOld THEN Terminal(o.v[k], PyNone)
                    ELSE IF k \in kept THEN dTemp[k]
                    ELSE Terminal(PyNone, n.v[k])]
      iMaxKeys == MaxKeys(Cardinality(DOMAIN o.v), Cardinality(DOMAIN n.v))
  IN  IF \E k \in shared : IsRaise(dTemp[k])
        THEN (CHOOSE r \in {dTemp[k] : k \in shared} : IsRaise(r))
      ELSE IF Cardinality(DOMAIN dRet) >= iMaxKeys THEN Terminal(o, n)
      ELSE IF DOMAIN dRet # {} THEN PyDict(dRet)
      ELSE PyNone

\* Both are lists; Python index i is position i + 1 here.
ListChanges(o, n) ==
  LET iOldLen == Len(o.v)
      iNewLen == Len(n.v)
      both    == {i \in 0 .. (iOldLen - 1) : i < iNewLen}
      onlyOld == {i \in 0 .. (iOldLen - 1) : i >= iNewLen}
      onlyNew == {i \in 0 .. (iNewLen - 1) : i >= iOldLen}
      dTemp   == [i \in both |-> generate_changes(o.v[i + 1], n.v[i + 1])]
      kept    == {i \in both : Truthy(dTemp[i])}
      idx     == onlyOld \cup kept \cup onlyNew
      at(k)   == CHOOSE i \in idx : str(i) = k
      dRet    == [k \in {str(i) : i \in idx} |->
                    IF at(k) \in onlyOld THEN Terminal(o.v[at(k) + 1], PyNone)
                    ELSE IF at(k) \in kept THEN dTemp[at(k)]
                    ELSE Terminal(PyNone, n.v[at(k) + 1])]
      iMaxKeys == MaxKeys(iOldLen, iNewLen)
  IN  IF \E i \in both : IsRaise(dTemp[i])
        THEN (CHOOSE r \in {dTemp[i] : i \in both} : IsRaise(r))
      ELSE IF Cardinality(DOMAIN dRet) >= iMaxKeys THEN Terminal(o, n)
      ELSE IF DOMAIN dRet # {} THEN PyDict(dRet)
      ELSE PyNone

\* DictBranch with the type check's return lost: a `new` that is no dict falls
\* through to the final `return None`.
DictBranchFallsThrough(o, n) == IF ~IsDict(n) THEN PyNone ELSE DictChanges(o, n)

\* `old` is a dict: a `new` that is no dict is a replacement.
DictBranch(o, n) == IF ~IsDict(n) THEN Terminal(o, n) ELSE DictChanges(o, n)

\* `old` is a list: a `new` that is no list is a replacement.
ListBranch(o, n) == IF ~IsList(n) THEN Terminal(o, n) ELSE ListChanges(o, n)

\* `old` is a single value.
ScalarBranch(o, n) ==
  IF IsDict(n) \/ IsList(n) \/ n # o THEN Terminal(o, n) ELSE PyNone

revision_generate(o, n) ==
  IF IsDict(o) THEN DictBranch(o, n)
  ELSE IF IsList(o) THEN ListBranch(o, n)
  ELSE ScalarBranch(o, n)

(***************************************************************************)
(* The inputs of the diff: scalars, containers of scalars, and containers  *)
(* of scalars and small containers.                                        *)
(***************************************************************************)
MaxLen == 3
MaxNestLen == 2

Keys == {"a", "b", "c"}
NestKeys == {"a", "b"}
Scalars == {PyNone, PyInt(1), PyInt(2), PyInt(3)}

DictsOver(K, E) == {PyDict(m) : m \in UNION {[D -> E] : D \in SUBSET K}}
ListsOver(n, E) == {PyList(s) : s \in UNION {[1 .. l -> E] : l \in 0 .. n}}

Flat == DictsOver(Keys, Scalars) \cup ListsOver(MaxLen, Scalars)
Inner == {PyInt(1), PyDict(<<>>), PyList(<<>>), PyList(<<PyInt(1)>>),
          PyDict([k \in {"a"} |-> PyInt(1)])}
Nested == DictsOver(NestKeys, Inner) \cup ListsOver(MaxNestLen, Inner)
Values == Scalars \cup Flat \cup Nested

DiffIdle ==
  /\ dpc = "idle"
  /\ old = PyNone
  /\ new = PyNone
  /\ result = PyNone

(***************************************************************************)
(* Cache: the registry of implementations of record/cache.py.              *)
(*                                                                         *)
(* __implementations is one dict of the class Cache, shared by every       *)
(* subclass: register and factory are classmethods and reach it through    *)
(* cls.  The implementations (the subclasses and their constructors) are   *)
(* outside the package: a constructor builds its instance from the         *)
(* configuration it is given, or raises KeyError when that configuration   *)
(* lacks a key it reads.  Cache itself can be registered as well: it is    *)
(* abstract, and calling it raises TypeError.                              *)
(***************************************************************************)
Names == {"redis", "memory"}
Classes == {"Cache", "Redis", "Memory"}
Configs == {"complete", "partial"}

\* The conf argument of factory: a dict that may hold 'implementation' (a
\* name) and, under each name, that implementation's configuration.
Confs ==
  UNION {[D -> Names \cup Configs] : D \in SUBSET ({"implementation"} \cup Names)}
ConfArgs ==
  {c \in Confs : \A k \in DOMAIN c :
     IF k = "implementation" THEN c[k] \in Names ELSE c[k] \in Configs}
NoConf == <<>>

CacheCall(op, c, n, conf) == [op |-> op, cls |-> c, name |-> n, conf |-> conf]
CacheOutcome(t, v) == [t |-> t, v |-> v]

\* The call c(dConf) of a bound class: Cache, being abstract, raises
\* TypeError; an implementation raises KeyError on a configuration that
\* lacks a key it reads, and builds its instance otherwise.
Construct(c, dConf) ==
  IF c = "Cache" THEN CacheOutcome("TypeError", "Cache")
  ELSE IF dConf = "partial" THEN CacheOutcome("KeyError", "host")
  ELSE CacheOutcome("instance", <<c, dConf>>)

\* implementation in cls.__implementations
AlreadyRegistered(n) == n \in DOMAIN __implementations

\* Cache.register(implementation), called on the class c
Register(c, n) ==
  /\ ccall' = CacheCall("register", c, n, NoConf)
  /\ IF AlreadyRegistered(n)
       THEN /\ coutcome' = CacheOutcome("ValueError", <<n, "already registered">>)
            /\ UNCHANGED __implementations
       ELSE /\ __implementations' =
                 [k \in DOMAIN __implementations \cup {n} |->
                    IF k = n THEN c ELSE __implementations[k]]
            /\ coutcome' = CacheOutcome("return", "None")

\* What factory(conf) ends in: conf[conf['implementation']] is read before
\* the try, the lookup of the class and its call are both inside it, and
\* the except takes KeyError only: any other exception of the call leaves
\* factory as it is.
FactoryOutcome(conf) ==
  IF "implementation" \notin DOMAIN conf
    THEN CacheOutcome("KeyError", "implementation")
  ELSE IF conf["implementation"] \notin DOMAIN conf
    THEN CacheOutcome("KeyError", conf["implementation"])
  ELSE IF conf["implementation"] \notin DOMAIN __implementations
    THEN CacheOutcome("ValueError", <<conf["implementation"], "not registered">>)
  ELSE LET made == Construct(__implementations[conf["implementation"]],
                             conf[conf["implementation"]])
       IN  IF made.t = "KeyError"
             THEN CacheOutcome("ValueError", <<conf["implementation"], "not registered">>)
             ELSE made

\* Cache.factory(conf), called on the class c
Factory(c, conf) ==
  /\ ccall' = CacheCall("factory", c, "", conf)
  /\ coutcome' = FactoryOutcome(conf)
  /\ UNCHANGED __implementations

CacheIdle ==
  /\ __implementations = <<>>
  /\ ccall = CacheCall("init", "", "", NoConf)
  /\ coutcome = CacheOutcome("return", "None")

NextCache ==
  \/ \E c \in Classes, n \in Names : Register(c, n) /\ UNCHANGED <<dvars, pvars>>
  \/ \E c \in Classes, conf \in ConfArgs : Factory(c, conf) /\ UNCHANGED <<dvars, pvars>>

(***************************************************************************)
(* Data: the record proxy of record/data.py.                               *)
(*                                                                         *)
(* Data overrides __setattr__ and __getattr__: an assignment self.x = v     *)
(* is field_set(x, v), and a read of self.x that finds no attribute x is   *)
(* field_get(x), which reads self._value.  An attribute is therefore       *)
(* either bound or Unbound, and a read of an Unbound one fails (NotBound). *)
(*                                                                         *)
(* A field of a bound _value holds a single value or a reference to a list *)
(* object of the heap, so that two dicts can hold the same list.  The      *)
(* storage (a define.Tree) is outside the package: it declares the fields  *)
(* of Schema, keeps revisions or not (`changes`), and gives each field a   *)
(* validator (Valid, Failures) and a normaliser (clean).                   *)
(***************************************************************************)
MaxTags == 2
MaxObjects == 3

Schema == {"name", "tags"}
Fields == Schema \cup {"ghost_field"}
Addr == 1 .. MaxObjects

Free == [t |-> "free", v |-> "free"]
Unbound == [t |-> "unbound", v |-> "unbound"]
NoCopy == [t |-> "nocopy", v |-> "nocopy"]
PyTrue == [t |-> "bool", v |-> TRUE]
Ref(a) == [t |-> "ref", v |-> a]
IsRef(x) == x.t = "ref"
Copy(m) == [t |-> "copy", v |-> m]

Bound == [t |-> "bound", v |-> "storage"]

Returned == [t |-> "return", v |-> "self"]
Raised(e, detail) == [t |-> e, v |-> detail]

\* self.<name> with no attribute <name> bound: __getattr__ calls field_get,
\* which reads self._value.  With _value bound the name is no key of it and
\* __getattr__ raises AttributeError(name); with _value not bound that read
\* reaches __getattr__ and field_get again, without end, until the
\* interpreter raises RecursionError.
NotBound(name) ==
  IF _value = Unbound
    THEN Raised("RecursionError", "maximum recursion depth exceeded")
    ELSE Raised("AttributeError", name)
Call(op, f, v) == [op |-> op, field |-> f, arg |-> v]

\* The lists of tags: [], ['x'], ['x', 'y'], ...
Tag(i) == PyStr(IF i % 2 = 1 THEN "x" ELSE "y")
TagLists == {PyList([i \in 1 .. n |-> Tag(i)]) : n \in 0 .. MaxTags}
SetArgs == {PyNone, PyStr("a"), PyStr("b"), PyInt(1), PyList(<<PyInt(1)>>)} \cup TagLists

\* self._storage[field].valid(value, [field]): name takes None, a str or an
\* int; tags takes a list of str.
Valid(f, v) ==
  IF f = "name" THEN v.t \in {"none", "str", "int"}
  ELSE IsList(v) /\ \A i \in 1 .. Len(v.v) : v.v[i].t = "str"

\* self._storage[field].validation_failures after a failed valid().
Failures(f, v) == <<f, "invalid">>

\* self._storage[field].clean(value): name is made a str, a list of str is
\* kept as it is.
clean(f, v) == IF f = "name" /\ v.t = "int" THEN PyStr(str(v.v)) ELSE v

\* What a field holds, a list reference followed.
Deref(h, x) == IF IsRef(x) THEN h[x.v] ELSE x

\* A dict of fields as a value, its list references followed.
Plain(h, m) == PyDict([f \in DOMAIN m |-> Deref(h, m[f])])

\* The Record Value the proxy holds, when it holds one.
RecordValue == IF _value = Unbound THEN Unbound ELSE Plain(heap, _value)

\* The list objects a dict of fields refers to.
Refs(m) == {m[f].v : f \in {g \in DOMAIN m : IsRef(m[g])}}

\* The objects the proxy's dict and the caller's copy still refer to; the
\* others are freed.
Live(m, r) == Refs(m) \cup (IF r = NoCopy THEN {} ELSE Refs(r.v))
Collect(h, live) == [a \in Addr |-> IF a \in live THEN h[a] ELSE Free]

\* The address of a new object.
NewAddr(h) == CHOOSE a \in Addr : h[a] = Free /\ \A b \in Addr : b < a => h[b] # Free

Without(m, f) == [g \in DOMAIN m \ {f} |-> m[g]]
With(m, f, x) == [g \in DOMAIN m \cup {f} |-> IF g = f THEN x ELSE m[g]]

\* self._changed[field] = True: a dict takes the key, a list raises
\* TypeError (list indices must be integers), and the read of a _changed
\* that is not bound fails.
MarkChanged(c, f) == IF IsDict(c) THEN PyDict(With(c.v, f, PyTrue)) ELSE c
MarkOutcome(c) ==
  IF IsDict(c) THEN Returned
  ELSE IF c = Unbound THEN NotBound("_changed")
  ELSE Raised("TypeError", "list indices must be integers")

\* The value of __init__'s `value` argument.
InitRecords ==
  {PyDict([f \in D |-> IF f = "name" THEN PyStr("a")
                       ELSE PyList(<<PyStr("x"), PyStr("y")>>)]) : D \in SUBSET Schema}
\* __init__ opens with `self._storage = storage`, which is
\* __setattr__('_storage', storage), hence field_set('_storage', storage),
\* whose first statement reads self._storage: nothing is bound yet, the read
\* fails with RecursionError, which __setattr__ (it turns KeyError only)
\* lets through.  The constructor ends there: no attribute is bound, and
\* the arguments are left as the caller gave them.
ProxyInit ==
  /\ value \in InitRecords
  /\ changes \in BOOLEAN
  /\ _storage = Unbound
  /\ _value = Unbound
  /\ _changed = Unbound
  /\ _old_value = Unbound
  /\ heap = [a \in Addr |-> Free]
  /\ ret = NoCopy
  /\ call = Call("init", "", value)
  /\ outcome = Raised("RecursionError", "maximum recursion depth exceeded")
  /\ validated = FALSE

\* The part of field_set after validation: the snapshot, the store, the mark.
\* `self._old_value` that is not bound reaches __getattr__, which raises
\* AttributeError; `self._old_value = ...` reaches __setattr__, hence
\* field_set('_old_value', ...), whose KeyError __setattr__ turns into
\* AttributeError.  Either way nothing has been stored yet.
StoreField(f, v) ==
  IF changes /\ _old_value \in {Unbound, PyNone}
    THEN /\ outcome' = Raised("AttributeError", "_old_value")
         /\ UNCHANGED <<_value, _changed, _old_value, heap>>
    ELSE LET c == IF v = PyNone THEN PyNone ELSE clean(f, v)
             a == NewAddr(heap)
             m == With(_value, f, IF IsList(c) THEN Ref(a) ELSE c)
             h == IF IsList(c) THEN [heap EXCEPT ![a] = c] ELSE heap
         IN  /\ _value' = m
             /\ heap' = Collect(h, Live(m, ret))
             /\ _changed' = MarkChanged(_changed, f)
             /\ outcome' = MarkOutcome(_changed)
             /\ UNCHANGED _old_value

\* field in self._storage
Declared(f) == f \in Schema

\* field in self._value and value == self._value[field]
SameValue(f, v) == f \in DOMAIN _value /\ v = Deref(heap, _value[f])

\* raise ValueError(self._storage[field].validation_failures)
RejectInvalid(f, v) ==
  /\ outcome' = Raised("ValueError", Failures(f, v))
  /\ UNCHANGED <<_value, _changed, _old_value, heap>>

\* Data.field_set(field, value)
FieldSet(f, v) ==
  /\ call' = Call("set", f, v)
  /\ UNCHANGED <<value, _storage, changes, ret>>
  /\ IF _storage = Unbound
       THEN /\ outcome' = NotBound("_storage")
            /\ validated' = FALSE
            /\ UNCHANGED <<_value, _changed, _old_value, heap>>
     ELSE IF ~Declared(f)
       THEN /\ outcome' = Raised("KeyError", f)
            /\ validated' = FALSE
            /\ UNCHANGED <<_value, _changed, _old_value, heap>>
     ELSE IF _value = Unbound
       THEN /\ outcome' = NotBound("_value")
            /\ validated' = FALSE
            /\ UNCHANGED <<_value, _changed, _old_value, heap>>
     ELSE IF SameValue(f, v)
       THEN /\ outcome' = Returned
            /\ validated' = FALSE
            /\ UNCHANGED <<_value, _changed, _old_value, heap>>
     ELSE IF ~Valid(f, v)
       THEN /\ validated' = TRUE
            /\ RejectInvalid(f, v)
     ELSE /\ validated' = TRUE
          /\ StoreField(f, v)

\* Data.field_remove(field)
FieldRemove(f) ==
  /\ call' = Call("remove", f, PyNone)
  /\ validated' = FALSE
  /\ UNCHANGED <<value, _storage, changes, ret, _old_value>>
  /\ IF _storage = Unbound
       THEN /\ outcome' = NotBound("_storage")
            /\ UNCHANGED <<_value, _changed, heap>>
     ELSE IF ~Declared(f)
       THEN /\ outcome' = Raised("KeyError", f)
            /\ UNCHANGED <<_value, _changed, heap>>
     ELSE IF _value = Unbound
       THEN /\ outcome' = NotBound("_value")
            /\ UNCHANGED <<_value, _changed, heap>>
     ELSE IF f \notin DOMAIN _value
       THEN /\ outcome' = Returned
            /\ UNCHANGED <<_value, _changed, heap>>
     ELSE /\ _value' = Without(_value, f)
          /\ heap' = Collect(heap, Live(Without(_value, f), ret))
          /\ _changed' = MarkChanged(_changed, f)
          /\ outcome' = MarkOutcome(_changed)

\* Data.value: copy(self._value), a new dict holding the same objects.
ReadValue ==
  /\ call' = Call("value", "", PyNone)
  /\ validated' = FALSE
  /\ UNCHANGED <<value, _storage, _value, _changed, _old_value, changes>>
  /\ IF _value = Unbound
       THEN /\ outcome' = NotBound("_value")
            /\ UNCHANGED <<ret, heap>>
     ELSE /\ ret' = Copy(_value)
          /\ heap' = Collect(heap, Live(_value, Copy(_value)))
          /\ outcome' = Returned

Next ==
  \/ \E f \in Fields, v \in SetArgs : FieldSet(f, v) /\ UNCHANGED <<dvars, cvars>>
  \/ \E f \in Fields : FieldRemove(f) /\ UNCHANGED <<dvars, cvars>>
  \/ ReadValue /\ UNCHANGED <<dvars, cvars>>

Init == DiffIdle /\ ProxyInit /\ CacheIdle

Spec == Init /\ [][Next]_vars

(***************************************************************************)
(* The diff on its own: the arguments are drawn, the call is made.         *)
(***************************************************************************)
ProxyIdle ==
  /\ value = PyDict(<<>>)
  /\ _storage = Unbound
  /\ _value = Unbound
  /\ heap = [a \in Addr |-> Free]
  /\ _changed = Unbound
  /\ _old_value = Unbound
  /\ changes = FALSE
  /\ ret = NoCopy
  /\ call = Call("init", "", PyNone)
  /\ outcome = Returned
  /\ validated = FALSE

DiffInit ==
  /\ dpc = "input"
  /\ old \in Values
  /\ new \in Values
  /\ result = PyNone
  /\ ProxyIdle
  /\ CacheIdle

RevisionGenerate ==
  /\ dpc = "input"
  /\ result' = revision_generate(old, new)
  /\ dpc' = "done"
  /\ UNCHANGED <<old, new>>
  /\ UNCHANGED <<pvars, cvars>>

SpecDiff == DiffInit /\ [][RevisionGenerate]_vars

(***************************************************************************)
(* The registry on its own.                                                *)
(***************************************************************************)
CacheInit == DiffIdle /\ ProxyIdle /\ CacheIdle

SpecCache == CacheInit /\ [][NextCache]_vars

(***************************************************************************)
(* The Change-Set Generator as the specification words it: the same rules  *)
(* with the per-key and per-index comparison done by the generator itself. *)
(***************************************************************************)
Category(x) == IF IsDict(x) THEN "mapping" ELSE IF IsList(x) THEN "sequence" ELSE "scalar"

Max(a, b) == IF a > b THEN a ELSE b

RECURSIVE ClaimedChanges(_, _)
ClaimedChanges(o, n) ==
  IF Category(o) # Category(n) THEN Terminal(o, n)
  ELSE IF IsDict(o) THEN
    LET shared  == DOMAIN o.v \cap DOMAIN n.v
        onlyOld == DOMAIN o.v \ DOMAIN n.v
        onlyNew == DOMAIN n.v \ DOMAIN o.v
        sub     == [k \in shared |-> ClaimedChanges(o.v[k], n.v[k])]
        kept    == {k \in shared : sub[k] # PyNone}
        entries == [k \in onlyOld \cup kept \cup onlyNew |->
                      IF k \in onlyOld THEN Terminal(o.v[k], PyNone)
                      ELSE IF k \in kept THEN sub[k]
                      ELSE Terminal(PyNone, n.v[k])]
    IN  IF Cardinality(DOMAIN entries) >=
             Max(Cardinality(DOMAIN o.v), Cardinality(DOMAIN n.v))
          THEN Terminal(o, n)
        ELSE IF DOMAIN entries # {} THEN PyDict(entries)
        ELSE PyNone
  ELSE IF IsList(o) THEN
    LET both    == 1 .. (IF Len(o.v) < Len(n.v) THEN Len(o.v) ELSE Len(n.v))
        onlyOld == (1 .. Len(o.v)) \ both
        onlyNew == (1 .. Len(n.v)) \ both
        sub     == [i \in both |-> ClaimedChanges(o.v[i], n.v[i])]
        kept    == {i \in both : sub[i] # PyNone}
        idx     == onlyOld \cup kept \cup onlyNew
        pos(k)  == CHOOSE i \in idx : str(i - 1) = k
        entries == [k \in {str(i - 1) : i \in idx} |->
                      IF pos(k) \in onlyOld THEN Terminal(o.v[pos(k)], PyNone)
                      ELSE IF pos(k) \in kept THEN sub[pos(k)]
                      ELSE Terminal(PyNone, n.v[pos(k)])]
    IN  IF Cardinality(DOMAIN entries) >= Max(Len(o.v), Len(n.v))
          THEN Terminal(o, n)
        ELSE IF DOMAIN entries # {} THEN PyDict(entries)
        ELSE PyNone
  ELSE IF o # n THEN Terminal(o, n)
  ELSE PyNone

IsPrefix(s, u) == Len(s) <= Len(u) /\ s = SubSeq(u, 1, Len(s))

\* The per-index entries of the positions one list has and the other lacks.
TrailingEntries(o, n) ==
  LET lo == Len(o.v)
      ln == Len(n.v)
      idx == ((1 .. lo) \cup (1 .. ln)) \ ((1 .. lo) \cap (1 .. ln))
      pos(k) == CHOOSE i \in idx : str(i - 1) = k
  IN  PyDict([k \in {str(i - 1) : i \in idx} |->
                IF pos(k) <= lo THEN Terminal(o.v[pos(k)], PyNone)
                ELSE Terminal(PyNone, n.v[pos(k)])])

(***************************************************************************)
(* Claims about Storage.revision_generate, under SpecDiff                  *)
(***************************************************************************)

\* C1: for every value X, revision_generate(X, X) returns "no change"
\* (None), the empty mapping and the empty sequence included.
C1_IdentityIsNoChange ==
  (dpc = "done" /\ old = new) => result = PyNone

\* C2: for two mappings the call returns what the per-key rules give: one
\* entry per key only in old, one per key only in new, one per shared key
\* whose own diff is non-empty; the whole-mapping replacement when the
\* entries number at least max(|keys(old)|, |keys(new)|), else the entries
\* when there are any, else "no change".
C2_MappingDiff ==
  (dpc = "done" /\ IsDict(old) /\ IsDict(new)) => result = ClaimedChanges(old, new)

\* C4: for two non-empty sequences of which one is the other with trailing
\* elements removed or appended, the call returns exactly the entries, keyed
\* by stringified index, of the removed or appended positions.
C4_SequenceTrailing ==
  (/\ dpc = "done" /\ IsList(old) /\ IsList(new)
   /\ old.v # <<>> /\ new.v # <<>> /\ old # new
   /\ (IsPrefix(new.v, old.v) \/ IsPrefix(old.v, new.v)))
  => result = TrailingEntries(old, new)

\* C5: when old and new are of differing container category (mapping,
\* sequence, scalar) the call returns the replacement {old: old, new: new}
\* of the whole values, whatever they hold.
C5_TypeShiftForcesReplacement ==
  (dpc = "done" /\ Category(old) # Category(new)) => result = Terminal(old, new)

\* C5's case: a non-empty mapping against a non-empty sequence, diffed.
C5_Witness ==
  /\ dpc = "done"
  /\ IsDict(old) /\ DOMAIN old.v # {}
  /\ IsList(new) /\ new.v # <<>>
  /\ result = Terminal(old, new)

\* C6: the call is total: it ends with a Change Set or "no change", never
\* with an exception.
C6_DiffIsTotal ==
  dpc = "done" => ~IsRaise(result)

(***************************************************************************)
(* Claims about the record proxy                                           *)
(***************************************************************************)
ProxyState == <<_value, heap, _changed, _old_value>>

\* The Record Value the calls act on: the one the proxy holds or, where the
\* constructor bound none, the one the proxy was constructed with.
Record == IF _value = Unbound THEN value ELSE RecordValue

\* The value is the one the Record Value holds for the field.
Stored(f, v) == f \in DOMAIN Record.v /\ v = Record.v[f]

C3_Snapshot ==
  PyDict([f \in {"name", "tags"} |->
            IF f = "name" THEN PyStr("a") ELSE PyList(<<PyStr("x"), PyStr("y")>>)])
C3_Expected ==
  PyDict([f \in {"name", "tags"} |->
            IF f = "name" THEN Terminal(PyStr("a"), PyStr("b"))
            ELSE PyDict([k \in {"1"} |-> Terminal(PyStr("y"), PyNone)])])

\* C3: on a proxy constructed with {name: a, tags: [x, y]} and keeping
\* revisions, once set(name, b) and then set(tags, [x]) have been made, the
\* sets have gone through and the Change Set generated between the snapshot
\* and the Record Value is
\* {name: {old: a, new: b}, tags: {"1": {old: y, new: null}}}.
C3_EndToEndRevision ==
  [][(/\ changes
      /\ value = C3_Snapshot
      /\ call = Call("set", "name", PyStr("b"))
      /\ call' = Call("set", "tags", PyList(<<PyStr("x")>>)))
     => (/\ outcome' = Returned
         /\ _old_value' = C3_Snapshot
         /\ revision_generate(_old_value', RecordValue') = C3_Expected)]_vars

\* C7: set(field, value) with a declared field that the Record Value holds
\* and a value equal to the stored one returns with the Record Value, the
\* Changed-Fields Set and the snapshot as they were, and without the
\* field's validator having been consulted.
C7_NoOpSet ==
  [][(/\ call'.op = "set"
      /\ call'.field \in Schema
      /\ Stored(call'.field, call'.arg))
     => (/\ ProxyState' = ProxyState
         /\ outcome' = Returned
         /\ validated' = FALSE)]_vars

\* C8: set(field, value) and remove(field) with a field the schema does not
\* declare end in KeyError (UnknownField) and leave the Changed-Fields Set,
\* the Record Value and the snapshot as they were.
C8_UnknownFieldRejected ==
  [][(call'.op \in {"set", "remove"} /\ call'.field \notin Schema)
     => (/\ outcome' = Raised("KeyError", call'.field)
         /\ ProxyState' = ProxyState)]_vars

\* C9: set(field, value) with a declared field, a value that differs from
\* the stored one and that the field's validator rejects, ends in ValueError
\* (InvalidValue) carrying the validator's failures, and leaves the Record
\* Value, the Changed-Fields Set and the snapshot as they were.
C9_InvalidValueNoMutation ==
  [][(/\ call'.op = "set"
      /\ call'.field \in Schema
      /\ ~Stored(call'.field, call'.arg)
      /\ ~Valid(call'.field, call'.arg))
     => (/\ outcome' = Raised("ValueError", Failures(call'.field, call'.arg))
         /\ ProxyState' = ProxyState)]_vars

\* C10: a read of value gives the caller a copy of the Record Value that
\* shares no object with the proxy, so that nothing done to the copy (a
\* field added, removed or replaced, a list it holds changed) reaches the
\* proxy's Record Value.
C10_ValueIsDefensiveCopy ==
  [][call'.op = "value"
     => (/\ outcome' = Returned
         /\ ret' # NoCopy
         /\ Plain(heap', ret'.v) = Record
         /\ Refs(ret'.v) \cap Refs(_value') = {}
         /\ ProxyState' = ProxyState)]_vars

\* A call that is to change the Record Value: a set of a declared field to a
\* valid value other than the stored one, a remove of a declared field that
\* the Record Value holds.
Mutation(c) ==
  \/ /\ c.op = "set"
     /\ c.field \in Schema
     /\ ~Stored(c.field, c.arg)
     /\ Valid(c.field, c.arg)
  \/ /\ c.op = "remove"
     /\ c.field \in Schema
     /\ c.field \in DOMAIN Record.v

\* C12: with revisions kept, a set or a remove that is to change the Record
\* Value leaves a snapshot held: the Record Value as it was before the call
\* when none was held (the first change, a set or a remove alike), the
\* snapshot already held otherwise (later changes never alter it).
C12_SnapshotInvariant ==
  [][(changes /\ Mutation(call'))
     => (/\ IsDict(_old_value')
         /\ _old_value' = IF IsDict(_old_value) THEN _old_value ELSE Record)]_vars

(***************************************************************************)
(* Claims about the cache registry, under SpecCache                        *)
(***************************************************************************)
NotRegistered(n) == CacheOutcome("ValueError", <<n, "not registered">>)

\* register: a name already bound is refused and the registry kept, a new
\* name is bound to the registering class and the call returns.
RegisterAsClaimed ==
  ccall'.op = "register" =>
    IF ccall'.name \in DOMAIN __implementations
      THEN /\ coutcome' = CacheOutcome("ValueError", <<ccall'.name, "already registered">>)
           /\ __implementations' = __implementations
      ELSE /\ coutcome' = CacheOutcome("return", "None")
           /\ DOMAIN __implementations' = DOMAIN __implementations \cup {ccall'.name}
           /\ __implementations'[ccall'.name] = ccall'.cls

\* A binding once made is neither replaced nor removed.
BindingsKept ==
  \A n \in DOMAIN __implementations :
    n \in DOMAIN __implementations' /\ __implementations'[n] = __implementations[n]

\* C11: over any register and factory calls, register refuses a
\* bound name and binds a new one; factory(conf) fails with the
\* not-registered ValueError exactly when no class is bound to
\* conf['implementation'], and returns the instance the bound class builds
\* from that implementation's configuration; bindings are never replaced.
C11_Registry ==
  [][/\ RegisterAsClaimed
     /\ BindingsKept
     /\ (ccall'.op = "factory" /\ "implementation" \in DOMAIN ccall'.conf) =>
          LET n == ccall'.conf["implementation"]
          IN  /\ (coutcome' = NotRegistered(n)) <=> (n \notin DOMAIN __implementations)
              /\ (n \in DOMAIN __implementations /\ n \in DOMAIN ccall'.conf) =>
                   coutcome' = CacheOutcome("instance",
                                            <<__implementations[n], ccall'.conf[n]>>)]_vars

====
